---- MODULE Spec2Model ----
(***************************************************************************)
(* Model of src/B_retriever.py: the sentence chunker                       *)
(* (semantic_token_chunk_documents) and the cached, batched embedding loop *)
(* of build_faiss_index and of get_retriever.                              *)
(*                                                                         *)
(* A text is a sequence of one-character strings.  A vector is a record    *)
(* [of, run, call]: the text the provider computed it for and the answer   *)
(* that carried it (run number, number of the answer among the provider's  *)
(* answers of the run); run 0 marks a vector that was in the cache file    *)
(* before the first run.                                                   *)
(***************************************************************************)
EXTENDS Integers, Sequences, FiniteSets, TLC

----------------------------------------------------------------------------
(* Bounds of the model *)

MaxChunks == 3          \* chunks handed to the embedding step
MaxRuns == 2            \* runs of the embedding step against one cache file
MaxDocs == 2            \* documents handed to the chunker
MaxSentences == 2       \* sentences of a document

(* Program constants *)

MaxRetries == 3         \* embed_with_retry(max_retries=3)
MinTokensBuild == 5     \* build_faiss_index keeps texts of more than 5 tokens
MinTokensGet == 2       \* get_retriever keeps texts of more than 2 tokens

(* Scaled limits: the source splits a request above 280_000 tokens (lines   *)
(* 144, 223) and get_retriever cuts batches of 100 texts (lines 209-210);   *)
(* the model uses small values so that short texts and few chunks reach     *)
(* both.                                                                    *)
TokenLimit == 12
BatchSizeGet == 2

BatchSizes == {2}       \* batch_size argument of build_faiss_index

----------------------------------------------------------------------------
(* Texts and the tokenizer *)

None == "None"

\* the value of a store, a saved index or a previous run that does not exist
Absent == [absent |-> TRUE]

IsSpace(c) == c = " "

IsLetter(c) == c \in {"a", "b"}

\* str.strip(): drop leading and trailing whitespace
RECURSIVE LStrip(_)
LStrip(s) == IF s # <<>> /\ IsSpace(Head(s)) THEN LStrip(Tail(s)) ELSE s

RECURSIVE RStrip(_)
RStrip(s) ==
    IF s # <<>> /\ IsSpace(s[Len(s)]) THEN RStrip(SubSeq(s, 1, Len(s) - 1)) ELSE s

Strip(s) == RStrip(LStrip(s))

\* enc.encode: a space merges with the letter that follows it (" a" is one
\* token); every other character is a token of its own.
RECURSIVE Encode(_)
Encode(s) ==
    IF s = <<>> THEN <<>>
    ELSE IF Len(s) >= 2 /\ IsSpace(s[1]) /\ IsLetter(s[2])
         THEN <<SubSeq(s, 1, 2)>> \o Encode(SubSeq(s, 3, Len(s)))
         ELSE <<SubSeq(s, 1, 1)>> \o Encode(Tail(s))

\* enc.decode: the concatenation of the tokens' characters
RECURSIVE Decode(_)
Decode(toks) == IF toks = <<>> THEN <<>> ELSE Head(toks) \o Decode(Tail(toks))

TokenLen(s) == Len(Encode(s))

\* " ".join(buffer)
RECURSIVE Join(_)
Join(buffer) ==
    IF buffer = <<>> THEN <<>>
    ELSE IF Len(buffer) = 1 THEN buffer[1]
    ELSE buffer[1] \o <<" ">> \o Join(Tail(buffer))

\* hashlib.md5(text.encode("utf-8")).hexdigest(): a digest per text
hash_text(text) == <<"md5", text>>

----------------------------------------------------------------------------
(* Inputs of the embedding step *)

TextA == <<"a", "a", "a", "a", "a", ".">>
TextASpaced == <<" ">> \o TextA
TextD == <<"b", "b", "b", "b", "b", ".">>
TextB == <<"a", "b", "a", "b", "a", "b", "a", "b", "a", "b", "a", "b", ".">>
TextS == <<"a", ".">>

RawTexts == {TextA, TextASpaced, TextD, TextB, TextS}

CachedTexts == {TextA}

\* chunk k carries the metadata of document k
ChunkLists ==
    UNION {[1..n -> RawTexts] : n \in 0..MaxChunks}

Chunks(raw) == [k \in 1..Len(raw) |-> [page_content |-> raw[k], metadata |-> k]]

OldVector(t) == [of |-> t, run |-> 0, call |-> 0]

CacheFiles ==
    {[h \in {hash_text(t) : t \in S} |-> OldVector(h[2])] : S \in SUBSET CachedTexts}

\* an index that an earlier call saved at index_path
OldIndex ==
    [index |-> <<OldVector(TextA)>>,
     documents |-> <<[page_content |-> TextA, metadata |-> 1]>>]

----------------------------------------------------------------------------
(* Helpers of the embedding step *)

Min(a, b) == IF a < b THEN a ELSE b

\* DictKeys as a list that keeps every occurrence of a key
RECURSIVE DictKeys_KeepDuplicates(_, _)
DictKeys_KeepDuplicates(ds, seen) ==
    IF ds = <<>> THEN <<>>
    ELSE <<Strip(Head(ds).page_content)>> \o DictKeys_KeepDuplicates(Tail(ds), seen)

\* keys of {doc.page_content.strip(): doc.metadata for doc in docs}, in the
\* order of their first insertion
RECURSIVE DictKeys(_, _)
DictKeys(ds, seen) ==
    IF ds = <<>> THEN <<>>
    ELSE LET k == Strip(Head(ds).page_content)
         IN IF k \in seen THEN DictKeys(Tail(ds), seen)
            ELSE <<k>> \o DictKeys(Tail(ds), seen \cup {k})

\* a later document with the same key overwrites the value of the key
DictValue(ds, k) ==
    LET last == CHOOSE j \in 1..Len(ds) :
                    /\ Strip(ds[j].page_content) = k
                    /\ \A m \in (j + 1)..Len(ds) : Strip(ds[m].page_content) # k
    IN ds[last].metadata

unique_pairs(ds) ==
    LET keys == DictKeys(ds, {})
    IN [n \in 1..Len(keys) |-> [text |-> keys[n], metadata |-> DictValue(ds, keys[n])]]

\* filtered that keeps the short texts
filtered_KeepAll(pairs, min) == pairs

\* [(t, m) for t, m in zip(texts, metadatas) if len(enc.encode(t)) > min]
filtered(pairs, min) == SelectSeq(pairs, LAMBDA p : TokenLen(p.text) > min)

MinTokens(f) == IF f = "build_faiss_index" THEN MinTokensBuild ELSE MinTokensGet

\* texts[i:i + batch_size]
Batch(ts, start, size) == SubSeq(ts, start + 1, Min(start + size, Len(ts)))

\* the texts of the batch whose digest is not in the cache, in batch order
BatchToEmbed(batch, c) == SelectSeq(batch, LAMBDA t : hash_text(t) \notin DOMAIN c)

\* the cached vectors of the other texts of the batch, in batch order
CacheHitVectors(batch, c) ==
    LET hits == SelectSeq(batch, LAMBDA t : hash_text(t) \in DOMAIN c)
    IN [k \in 1..Len(hits) |-> c[hash_text(hits[k])]]

RECURSIVE SumTokens(_)
SumTokens(ts) == IF ts = <<>> THEN 0 ELSE TokenLen(Head(ts)) + SumTokens(Tail(ts))

\* the provider requests of one batch: the whole queue, or its two halves
\* when the queue is above the token limit
Requests(queue) ==
    IF SumTokens(queue) > TokenLimit
    THEN LET mid == Len(queue) \div 2
         IN <<SubSeq(queue, 1, mid), SubSeq(queue, mid + 1, Len(queue))>>
    ELSE <<queue>>

\* the provider calls of a log that were answered
Answered(cs) == SelectSeq(cs, LAMBDA c : c.ok)

\* embedder.embed_documents(texts): one vector per text, in order
embed_documents(ts, r, n) == [k \in 1..Len(ts) |-> [of |-> ts[k], run |-> r, call |-> n]]

\* for h, emb in zip(cache_hits, embs): d[h] = emb
RECURSIVE PutAll(_, _, _)
PutAll(d, hs, vs) ==
    IF hs = <<>> \/ vs = <<>> THEN d
    ELSE PutAll((Head(hs) :> Head(vs)) @@ d, Tail(hs), Tail(vs))

\* Extend as an assignment: embeddings = embs
Extend_Assign(es, vs) == vs

\* embeddings.extend(embs)
Extend(es, vs) == es \o vs

\* HasNextAttempt with one attempt too many: range(max_retries + 1)
HasNextAttempt_OneMore(a) == a + 1 < MaxRetries + 1

\* HasNextAttempt with one attempt too few: range(max_retries - 1)
HasNextAttempt_OneLess(a) == a + 1 < MaxRetries - 1

\* for attempt in range(max_retries): is there an attempt after this one
HasNextAttempt(a) == a + 1 < MaxRetries

\* [Document(page_content=t, metadata=m) for t, m in zip(texts, metadatas)]
Documents(ts, ms) ==
    [k \in 1..Min(Len(ts), Len(ms)) |-> [page_content |-> ts[k], metadata |-> ms[k]]]

EmptyDict == [h \in {} |-> None]

\* LoadCache that ignores the file: cache = {}
LoadCache_Empty(file) == EmptyDict

\* json.load(open(cache_file)) if os.path.exists(cache_file) else {}
LoadCache(file) == file

\* Dumped that writes the entries of this run only
Dumped_OnlyNew(c, new, file) == IF new # EmptyDict THEN new ELSE file

\* if new_cache_entries: json.dump(cache, open(cache_file, "w")): the file after
Dumped(c, new, file) == IF new # EmptyDict THEN c ELSE file

\* NoTexts that never raises
NoTexts_Unchecked(ts) == FALSE

\* if not texts: raise ValueError("All texts filtered out.")
NoTexts(ts) == ts = <<>>

\* UseSavedIndex that always builds
UseSavedIndex_Never(reuse_index, saved) == FALSE

\* if reuse_index and os.path.exists(index_path)
UseSavedIndex(reuse_index, saved) == reuse_index /\ saved # Absent

----------------------------------------------------------------------------
(* State of the embedding step *)

VARIABLES
    fn,                 \* the function that runs: build_faiss_index or get_retriever
    docs,               \* its chunks (docs / chunks)
    batch_size,         \* its batch size
    cache_file,         \* embedding_cache.json
    index_path,         \* the index saved at index_path, or Absent
    run,                \* number of the current run
    pc,                 \* position of the current run
    err,                \* the error that ended the run, or None
    reused,             \* the run loaded the saved index
    cache,              \* the cache dictionary in memory
    texts,
    metadatas,
    embeddings,
    new_cache_entries,
    i,                  \* start of the current batch
    batch_to_embed,
    cache_hits,         \* digests of the queued texts
    pending,            \* provider requests of the batch not yet answered
    embs,               \* vectors returned for the batch so far
    attempt,            \* attempt of embed_with_retry
    calls,              \* provider calls of the run: [texts, ok, sleep]
    store,              \* the vector store the run returned, or Absent
    prev,               \* outcome of the previous run, or Absent
    entry,              \* history: the API key, whether reuse_index met a saved
                        \* index, and the files, at the entry of the run
    lexical,            \* the chunks of the BM25 retriever of the run, or Absent
    documents,          \* the chunker's documents: [sentences, metadata]
    max_tokens,
    overlap_tokens,
    doc,                \* the document the chunker is at
    sent,               \* the sentence of that document it is at
    buffer,
    buffer_token_count,
    chunked_docs,
    cpc,                \* position of the chunker
    buffer_src,         \* history: the origin of each piece of buffer, the number
                        \* of its sentence in the document, 0 for an overlap text
    chunk_src,          \* history: the origin of the pieces of each emitted chunk
    runs,               \* two concurrent runs of build_faiss_index: their locals
    shared_file         \* the cache file the two runs share

disk == <<cache_file, index_path>>

input == <<fn, docs, batch_size>>

batchvars == <<batch_to_embed, cache_hits, pending, embs, attempt>>

chunker == <<documents, max_tokens, overlap_tokens, doc, sent, buffer,
             buffer_token_count, chunked_docs, cpc, buffer_src, chunk_src>>

race == <<runs, shared_file>>

embedding == <<fn, docs, batch_size, cache_file, index_path, run, pc, err, reused,
               cache, texts, metadatas, embeddings, new_cache_entries, i,
               batch_to_embed, cache_hits, pending, embs, attempt, calls, store, prev,
               entry, lexical>>

vars == <<embedding, chunker, race>>

\* the locals of a function that has not been entered
IdleEmbedding ==
    /\ run = 0
    /\ pc = "idle"
    /\ err = None
    /\ reused = FALSE
    /\ cache = EmptyDict
    /\ texts = <<>>
    /\ metadatas = <<>>
    /\ embeddings = <<>>
    /\ new_cache_entries = EmptyDict
    /\ i = 0
    /\ batch_to_embed = <<>>
    /\ cache_hits = <<>>
    /\ pending = <<>>
    /\ embs = <<>>
    /\ attempt = 0
    /\ calls = <<>>
    /\ store = Absent
    /\ prev = Absent
    /\ entry = Absent
    /\ lexical = Absent

IdleChunker ==
    /\ documents = <<>>
    /\ max_tokens = 0
    /\ overlap_tokens = 0
    /\ doc = 1
    /\ sent = 1
    /\ buffer = <<>>
    /\ buffer_token_count = 0
    /\ chunked_docs = <<>>
    /\ cpc = "idle"
    /\ buffer_src = <<>>
    /\ chunk_src = <<>>

\* no concurrent runs
IdleRace ==
    /\ runs = <<>>
    /\ shared_file = EmptyDict

Init ==
    /\ fn \in {"build_faiss_index", "get_retriever"}
    /\ \E raw \in ChunkLists : docs = Chunks(raw)
    /\ batch_size \in (IF fn = "build_faiss_index" THEN BatchSizes ELSE {BatchSizeGet})
    /\ cache_file \in CacheFiles
    /\ index_path \in (IF fn = "get_retriever" THEN {Absent, OldIndex} ELSE {Absent})
    /\ IdleEmbedding
    /\ IdleChunker
    /\ IdleRace

\* what a run leaves behind when the next one starts
Outcome ==
    IF run = 0 THEN Absent
    ELSE [pc |-> pc, reused |-> reused, embeddings |-> embeddings]

\* the locals of a run at its entry
Enter ==
    /\ pc \in {"idle", "done", "error"}
    /\ run < MaxRuns
    /\ run' = run + 1
    /\ prev' = Outcome
    /\ embeddings' = <<>>
    /\ new_cache_entries' = EmptyDict
    /\ i' = 0
    /\ batch_to_embed' = <<>>
    /\ cache_hits' = <<>>
    /\ pending' = <<>>
    /\ embs' = <<>>
    /\ attempt' = 0
    /\ calls' = <<>>
    /\ store' = Absent
    /\ lexical' = Absent
    /\ UNCHANGED <<input, disk>>
    /\ UNCHANGED <<chunker, race>>

Raise(e) ==
    /\ pc' = "error"
    /\ err' = e

\* build_faiss_index, lines 116-127: load the cache, deduplicate, filter
StartBuild ==
    /\ fn = "build_faiss_index"
    /\ Enter
    /\ entry' = [api_key |-> TRUE, reuse_saved |-> FALSE,
                 cache_file |-> cache_file, index_path |-> index_path]
    /\ LET kept == filtered(unique_pairs(docs), MinTokens(fn))
       IN /\ cache' = LoadCache(cache_file)
          /\ texts' = [k \in 1..Len(kept) |-> kept[k].text]
          /\ metadatas' = [k \in 1..Len(kept) |-> kept[k].metadata]
    /\ pc' = "loop"
    /\ err' = None
    /\ reused' = FALSE

\* get_retriever, lines 174-207: the checks, the cache, the saved index or
\* the deduplicated and filtered texts
StartGet ==
    /\ fn = "get_retriever"
    /\ Enter
    /\ \E api_key \in BOOLEAN, reuse_index \in BOOLEAN :
         /\ entry' = [api_key |-> api_key,
                      reuse_saved |-> reuse_index /\ index_path # Absent,
                      cache_file |-> cache_file, index_path |-> index_path]
         /\ IF docs = <<>>
            THEN /\ \E e \in {"No documents found.", "No chunks created."} : Raise(e)
                 /\ cache' = EmptyDict
                 /\ reused' = FALSE
                 /\ texts' = <<>>
                 /\ metadatas' = <<>>
            ELSE IF ~api_key
            THEN /\ Raise("OPENAI_API_KEY is not set.")
                 /\ cache' = EmptyDict
                 /\ reused' = FALSE
                 /\ texts' = <<>>
                 /\ metadatas' = <<>>
            ELSE IF UseSavedIndex(reuse_index, index_path)
            THEN /\ cache' = LoadCache(cache_file)
                 /\ reused' = TRUE
                 /\ pc' = "load"
                 /\ err' = None
                 /\ texts' = <<>>
                 /\ metadatas' = <<>>
            ELSE LET kept == filtered(unique_pairs(docs), MinTokens(fn))
                 IN /\ cache' = LoadCache(cache_file)
                    /\ reused' = FALSE
                    /\ texts' = [k \in 1..Len(kept) |-> kept[k].text]
                    /\ metadatas' = [k \in 1..Len(kept) |-> kept[k].metadata]
                    /\ IF NoTexts(texts')
                       THEN Raise("All texts filtered out.")
                       ELSE pc' = "loop" /\ err' = None

\* FAISS.load_local(index_path, ...), then the BM25 retriever is built from
\* the chunks and the ensemble is returned, lines 249-256
LoadIndex ==
    /\ pc = "load"
    /\ store' = index_path
    /\ lexical' = docs
    /\ pc' = "done"
    /\ UNCHANGED <<input, disk, run, err, reused, cache, texts, metadatas, embeddings,
                   new_cache_entries, i, batchvars, calls, prev, entry>>
    /\ UNCHANGED <<chunker, race>>

\* one pass of the batch loop up to the provider call: the cache hits of the
\* batch go to embeddings, its misses are queued
ScanBatch ==
    /\ pc = "loop"
    /\ i < Len(texts)
    /\ LET batch == Batch(texts, i, batch_size)
           queue == BatchToEmbed(batch, cache)
       IN /\ embeddings' = Extend(embeddings, CacheHitVectors(batch, cache))
          /\ batch_to_embed' = queue
          /\ cache_hits' = [k \in 1..Len(queue) |-> hash_text(queue[k])]
          /\ embs' = <<>>
          /\ attempt' = 0
          /\ IF queue = <<>>
             THEN /\ pending' = <<>>
                  /\ i' = i + batch_size
                  /\ pc' = "loop"
             ELSE /\ pending' = Requests(queue)
                  /\ i' = i
                  /\ pc' = "embed"
    /\ UNCHANGED <<input, disk, run, err, reused, cache, texts, metadatas,
                   new_cache_entries, calls, store, prev, entry, lexical>>
    /\ UNCHANGED <<chunker, race>>

\* the provider answers the request at the head of pending
ProviderReturns ==
    /\ pc = "embed"
    /\ pending # <<>>
    /\ calls' = Append(calls, [texts |-> Head(pending), ok |-> TRUE, sleep |-> 0])
    /\ embs' = embs \o embed_documents(Head(pending), run, Len(Answered(calls)) + 1)
    /\ pending' = Tail(pending)
    /\ attempt' = 0
    /\ pc' = IF Tail(pending) = <<>> THEN "store" ELSE "embed"
    /\ UNCHANGED <<input, disk, run, err, reused, cache, texts, metadatas, embeddings,
                   new_cache_entries, i, batch_to_embed, cache_hits, store, prev,
                   entry, lexical>>
    /\ UNCHANGED <<chunker, race>>

\* the provider raises: embed_with_retry sleeps and tries again until its
\* attempts are used up; get_retriever calls the provider directly
ProviderRaises ==
    /\ pc = "embed"
    /\ pending # <<>>
    /\ IF fn = "build_faiss_index"
       THEN /\ calls' = Append(calls, [texts |-> Head(pending), ok |-> FALSE,
                                       sleep |-> 2 ^ attempt])
            /\ IF HasNextAttempt(attempt)
               THEN /\ attempt' = attempt + 1
                    /\ UNCHANGED <<pc, err>>
               ELSE /\ attempt' = attempt
                    /\ Raise("Embedding failed after multiple retries")
       ELSE /\ calls' = Append(calls, [texts |-> Head(pending), ok |-> FALSE, sleep |-> 0])
            /\ attempt' = attempt
            /\ Raise("embed_documents")
    /\ UNCHANGED <<input, disk, run, reused, cache, texts, metadatas, embeddings,
                   new_cache_entries, i, batch_to_embed, cache_hits, pending, embs,
                   store, prev, entry, lexical>>
    /\ UNCHANGED <<chunker, race>>

\* the rest of the pass: the new vectors go to the cache and to embeddings
StoreBatch ==
    /\ pc = "store"
    /\ cache' = PutAll(cache, cache_hits, embs)
    /\ new_cache_entries' = PutAll(new_cache_entries, cache_hits, embs)
    /\ embeddings' = Extend(embeddings, embs)
    /\ i' = i + batch_size
    /\ pc' = "loop"
    /\ UNCHANGED <<input, disk, run, err, reused, texts, metadatas, batchvars, calls,
                   store, prev, entry, lexical>>
    /\ UNCHANGED <<chunker, race>>

\* after the loop: if new_cache_entries: json.dump(cache, ...)
Persist ==
    /\ pc = "loop"
    /\ i >= Len(texts)
    /\ cache_file' = Dumped(cache, new_cache_entries, cache_file)
    /\ pc' = "index"
    /\ UNCHANGED <<input, index_path, run, err, reused, cache, texts, metadatas,
                   embeddings, new_cache_entries, i, batchvars, calls, store, prev,
                   entry, lexical>>
    /\ UNCHANGED <<chunker, race>>

\* dim = len(embeddings[0]); index.add(embeddings); the store pairs the
\* index with the documents; get_retriever saves it, builds the BM25
\* retriever from the chunks and returns the ensemble, lines 247-256
BuildIndex ==
    /\ pc = "index"
    /\ IF embeddings = <<>>
       THEN /\ Raise("IndexError")
            /\ UNCHANGED <<store, index_path, lexical>>
       ELSE LET s == [index |-> embeddings, documents |-> Documents(texts, metadatas)]
            IN /\ store' = s
               /\ index_path' = IF fn = "get_retriever" THEN s ELSE index_path
               /\ lexical' = IF fn = "get_retriever" THEN docs ELSE lexical
               /\ pc' = "done"
               /\ err' = None
    /\ UNCHANGED <<input, cache_file, run, reused, cache, texts, metadatas, embeddings,
                   new_cache_entries, i, batchvars, calls, prev, entry>>
    /\ UNCHANGED <<chunker, race>>

Next ==
    \/ StartBuild
    \/ StartGet
    \/ LoadIndex
    \/ ScanBatch
    \/ ProviderReturns
    \/ ProviderRaises
    \/ StoreBatch
    \/ Persist
    \/ BuildIndex

Spec == Init /\ [][Next]_vars

----------------------------------------------------------------------------
(* Properties of the embedding step *)

Range(f) == {f[k] : k \in DOMAIN f}

Last(q) == q[Len(q)]

\* number of failed provider calls at the end of a call log
RECURSIVE TrailingFails(_)
TrailingFails(cs) ==
    IF cs = <<>> \/ Last(cs).ok THEN 0
    ELSE 1 + TrailingFails(SubSeq(cs, 1, Len(cs) - 1))

\* number of failed calls right before call n
FailsBefore(cs, n) == TrailingFails(SubSeq(cs, 1, n - 1))

RetryError == "Embedding failed after multiple retries"

\* the embedding loop of the run has finished
LoopFinished ==
    \/ pc = "loop" /\ i >= Len(texts)
    \/ pc = "index"
    \/ pc = "done" /\ ~reused

\* the digests the run found in the cache file
LoadedKeys == DOMAIN cache \ DOMAIN new_cache_entries

\* C1: when the embedding loop finishes, the i-th vector of embeddings is the
\* vector of the i-th text, for every i.
C1_VectorsInTextOrder ==
    LoopFinished =>
        \A k \in 1..Len(texts) : k <= Len(embeddings) /\ embeddings[k].of = texts[k]

\* C3 as stated: a run of the embedding step that follows a successful run on
\* the same chunks and the same cache file calls the provider zero times and
\* ends with the vectors of the first run, text by text.
C3_SecondRunSameVectors ==
    (/\ prev # Absent
     /\ prev.pc = "done"
     /\ ~prev.reused
     /\ ~reused
     /\ pc \in {"loop", "embed", "store", "index", "done", "error"})
    => /\ calls = <<>>
       /\ pc = "done" => embeddings = prev.embeddings

\* the half of C3 about provider calls, on its own
SecondRunNoCalls ==
    (/\ prev # Absent
     /\ prev.pc = "done"
     /\ ~prev.reused
     /\ ~reused
     /\ pc \in {"loop", "embed", "store", "index", "done", "error"})
    => calls = <<>>

\* C4: when the provider fails on every attempt of a request, embed_with_retry
\* has called it exactly MaxRetries times and raises; build_faiss_index ends
\* with that error and returns no store, and a store is only ever returned
\* with one vector per text.
C4_ExhaustedRetriesFatal ==
    fn = "build_faiss_index" =>
        /\ TrailingFails(calls) <= MaxRetries
        /\ TrailingFails(calls) = MaxRetries =>
              /\ pc = "error"
              /\ err = RetryError
              /\ store = Absent
              /\ \A n \in (Len(calls) - MaxRetries + 1)..Len(calls) :
                    calls[n].texts = Last(calls).texts
        /\ store # Absent => err = None /\ Len(store.index) = Len(texts)

\* a run of build_faiss_index that computed vectors in one batch and then
\* died of the provider failing MaxRetries times in a later one
C4_Witness ==
    /\ fn = "build_faiss_index"
    /\ pc = "error"
    /\ err = RetryError
    /\ TrailingFails(calls) = MaxRetries
    /\ embeddings # <<>>
    /\ store = Absent

\* C5: when the provider fails fewer than MaxRetries times and then succeeds,
\* no error is raised, the vectors used are those of the successful call, and
\* the texts of a successful request are in no later call.
C5_RetryThenSuccess ==
    fn = "build_faiss_index" =>
        /\ err = RetryError => TrailingFails(calls) >= MaxRetries
        /\ \A n \in 1..Len(calls) :
              calls[n].ok =>
                 /\ FailsBefore(calls, n) < MaxRetries
                 /\ \A m \in (n - FailsBefore(calls, n))..(n - 1) :
                       calls[m].texts = calls[n].texts
                 /\ \A m \in (n + 1)..Len(calls) :
                       Range(calls[m].texts) \cap Range(calls[n].texts) = {}
        /\ \A v \in Range(embs) \cup Range(embeddings) :
              v.run = run =>
                 /\ v.call \in 1..Len(Answered(calls))
                 /\ v.of \in Range(Answered(calls)[v.call].texts)
        /\ pc = "store" =>
              LET n == Len(calls)
              IN /\ n > 0
                 /\ calls[n].ok
                 /\ Len(embs) >= Len(calls[n].texts)
                 /\ \A k \in 1..Len(calls[n].texts) :
                       embs[Len(embs) - Len(calls[n].texts) + k] =
                           [of |-> calls[n].texts[k], run |-> run,
                            call |-> Len(Answered(calls))]

\* the provider failed MaxRetries - 1 times, then succeeded, and the run went
\* on to return a store that holds the vector of the successful call
C5_Witness ==
    /\ fn = "build_faiss_index"
    /\ pc = "done"
    /\ \E n \in 1..Len(calls) :
          /\ calls[n].ok
          /\ FailsBefore(calls, n) = MaxRetries - 1
          /\ \E v \in Range(store.index) :
                v.run = run /\ v.call = Len(Answered(SubSeq(calls, 1, n)))

\* C6 as stated: get_retriever fails on a provider error only after
\* MaxRetries failed attempts with backoff, never on the first one.
C6_GetRetriesProviderErrors ==
    (fn = "get_retriever" /\ pc = "error" /\ calls # <<>> /\ ~Last(calls).ok)
    => /\ TrailingFails(calls) = MaxRetries
       /\ \A n \in (Len(calls) - MaxRetries + 1)..Len(calls) : calls[n].sleep > 0

\* C7 as stated: when a run ends with an error, the vectors its completed
\* batches computed are in the cache file.
C7_CompletedBatchesPersisted ==
    pc = "error" =>
        \A h \in DOMAIN new_cache_entries :
            h \in DOMAIN cache_file /\ cache_file[h] = new_cache_entries[h]

\* positions of text t in the successful provider requests of the run
Computations(t) ==
    {<<n, k>> \in (1..Len(calls)) \X (1..MaxChunks + 1) :
        calls[n].ok /\ k <= Len(calls[n].texts) /\ calls[n].texts[k] = t}

\* C8: within a run every distinct trimmed chunk text is in at most one
\* successful provider request, once, and a text found in the cache is in none.
C8_OneComputationPerText ==
    \A d \in Range(docs) :
        LET t == Strip(d.page_content)
        IN /\ Cardinality(Computations(t)) <= 1
           /\ hash_text(t) \in LoadedKeys => Computations(t) = {}

\* two chunks whose texts differ only by surrounding whitespace, embedded by
\* one provider request in a run that finished
C8_Witness ==
    /\ pc = "done"
    /\ ~reused
    /\ \E j, k \in 1..Len(docs) :
          /\ docs[j].page_content # docs[k].page_content
          /\ Strip(docs[j].page_content) = Strip(docs[k].page_content)
          /\ Cardinality(Computations(Strip(docs[j].page_content))) = 1

\* C9 as stated: the store keeps, for every chunk text it holds, the metadata
\* of every chunk that has that text.
C9_AllMetadataKept ==
    (store # Absent /\ ~reused) =>
        \A d \in Range(docs) :
            (\E s \in Range(store.documents) : s.page_content = Strip(d.page_content))
            => \E s \in Range(store.documents) :
                  /\ s.page_content = Strip(d.page_content)
                  /\ s.metadata = d.metadata

\* C10: a store holds as many vectors as chunk records.
C10_VectorCountEqualsChunkCount ==
    store # Absent => Len(store.index) = Len(store.documents)

\* a store built from cache hits and from two provider requests (two batches
\* or two halves of a batch)
C10_Witness ==
    /\ store # Absent
    /\ ~reused
    /\ pc = "done"
    /\ \E v \in Range(store.index) : v.run = 0
    /\ \E n, m \in 1..Len(calls) : n # m /\ calls[n].ok /\ calls[m].ok

----------------------------------------------------------------------------
(* Configuration errors, request splitting, the ensemble, reuse, the cache file *)

\* the ValueErrors of get_retriever that stop a run before the embedding loop
ConfigErrors ==
    {"No documents found.", "No chunks created.", "OPENAI_API_KEY is not set.",
     "All texts filtered out."}

\* the texts that deduplication and the short-text filter leave of the chunks
Kept == filtered(unique_pairs(docs), MinTokens(fn))

\* the call was made with reuse_index and a saved index exists
ReusePath == entry.reuse_saved

\* the run has called no provider, written no file and built no index
NothingDone ==
    /\ calls = <<>>
    /\ attempt = 0
    /\ cache_file = entry.cache_file
    /\ index_path = entry.index_path
    /\ store = Absent
    /\ lexical = Absent

\* the run is past the checks that precede the embedding loop
PastChecks == pc \in {"loop", "embed", "store", "index"} \/ (pc = "done" /\ ~reused)

C14_NoEmptyRequest ==
    /\ \A k \in 1..Len(calls) : calls[k].texts # <<>>
    /\ \A k \in 1..Len(pending) : pending[k] # <<>>

\* the chunk texts searchable through the vector index of the ensemble
VectorTexts == {d.page_content : d \in Range(store.documents)}

\* the trimmed chunk texts of the lexical retriever of the ensemble
LexicalTexts == {Strip(c.page_content) : c \in Range(lexical)}

\* C15: in the ensemble get_retriever returns, the texts of the vector index
\* are the trimmed texts of the chunks of the lexical retriever, with and
\* without reuse_index.
C15_SameChunksInBothRetrievers ==
    fn = "get_retriever" /\ pc = "done" => VectorTexts = LexicalTexts

\* C15, amended: the lexical retriever is built from all the chunks of the
\* call; a vector index built by the call holds exactly their distinct trimmed
\* texts of more than MinTokensGet tokens, and a reused index is the saved
\* one, whatever the chunks of the call are.
C15_VectorIndexHoldsEmbeddableTexts ==
    fn = "get_retriever" /\ pc = "done" =>
        /\ lexical = docs
        /\ IF reused
           THEN store = entry.index_path
           ELSE /\ VectorTexts = {t \in LexicalTexts : TokenLen(t) > MinTokensGet}
                /\ Len(store.documents) = Cardinality(VectorTexts)

\* an ensemble built from chunks of which one is too short to embed
C15_Witness ==
    /\ fn = "get_retriever"
    /\ pc = "done"
    /\ ~reused
    /\ \E t \in LexicalTexts : TokenLen(t) <= MinTokensGet
    /\ VectorTexts # LexicalTexts

\* C18: a call of get_retriever with reuse_index and a saved index calls no
\* provider and leaves the cache file and the saved index as they were.
C18_ReuseTouchesNothing ==
    fn = "get_retriever" /\ run >= 1 /\ ReusePath =>
        /\ calls = <<>>
        /\ cache_file = entry.cache_file
        /\ index_path = entry.index_path
        /\ pc \in {"load", "done", "error"}
        /\ pc = "done" => reused /\ store = entry.index_path

\* a finished call that reused the index although the cache file lacks the
\* digest of one of its texts
C18_Witness ==
    /\ fn = "get_retriever"
    /\ pc = "done"
    /\ reused
    /\ \E p \in Range(Kept) : hash_text(p.text) \notin DOMAIN cache_file

\* a step keeps every entry of the cache file and rewrites the file only
\* with new entries
CacheFileGrows ==
    /\ \A h \in DOMAIN cache_file :
           h \in DOMAIN cache_file' /\ cache_file'[h] = cache_file[h]
    /\ cache_file' # cache_file =>
           /\ new_cache_entries # EmptyDict
           /\ \E k \in 1..Len(calls) : calls[k].ok

\* C19: every step of every run keeps the entries of the cache file with
\* their vectors, and the file changes only in a run that computed a vector.
C19_CacheOnlyGrows == [][CacheFileGrows]_vars

\* a second run that has added an entry to a cache file that had entries
C19_Witness ==
    /\ run = 2
    /\ pc = "done"
    /\ entry.cache_file # EmptyDict
    /\ cache_file # entry.cache_file
    /\ \A h \in DOMAIN entry.cache_file :
           h \in DOMAIN cache_file /\ cache_file[h] = entry.cache_file[h]

----------------------------------------------------------------------------
(* The chunker: semantic_token_chunk_documents *)

SentShort == <<"a", ".">>
SentLong == <<"a", "b", "a", "b", ".">>
SentDigit == <<"1", ".">>

\* the sentences nltk.sent_tokenize finds in a document
Sentences == {SentShort, SentLong, SentDigit}

SentenceLists == UNION {[1..n -> Sentences] : n \in 0..MaxSentences}

\* the buffer starts empty in every document (lines 76-77): the first
\* document has up to MaxSentences sentences, the documents after it have
\* at most one
DocumentLists ==
    {ds \in UNION {[1..n -> SentenceLists] : n \in 1..MaxDocs} :
        \A k \in 2..Len(ds) : Len(ds[k]) <= 1}

\* max_tokens and overlap_tokens of a call (300 and 50 in get_retriever)
MaxTokensChoices == {3, 4}
OverlapChoices == {0, 2}

\* s[-n:] for n > 0
LastChars(s, n) == IF Len(s) <= n THEN s ELSE SubSeq(s, Len(s) - n + 1, Len(s))

\* NextBuffer that keeps the overlap text and drops the sentence
NextBuffer_DropSentence(buf, sentence, overlap) ==
    IF overlap > 0
    THEN <<Decode(Encode(LastChars(Join(buf), overlap)))>>
    ELSE <<>>

\* the buffer after a sentence that does not fit: the overlap text and the
\* sentence, or the sentence alone
NextBuffer(buf, sentence, overlap) ==
    IF overlap > 0
    THEN <<Decode(Encode(LastChars(Join(buf), overlap))), sentence>>
    ELSE <<sentence>>

\* the token count kept for that buffer
NextBufferTokenCount(buf, sentence, overlap) ==
    IF overlap > 0
    THEN TokenLen(Join(NextBuffer(buf, sentence, overlap)))
    ELSE TokenLen(sentence)

\* FitsBuffer with a strict comparison
FitsBuffer_Strict(count, sentence_len, max) == count + sentence_len < max

\* if buffer_token_count + sentence_len <= max_tokens
FitsBuffer(count, sentence_len, max) == count + sentence_len <= max

\* Document(page_content=" ".join(buffer), metadata=metadata)
Chunk(buf, metadata) == [page_content |-> Join(buf), metadata |-> metadata]

InitChunker ==
    /\ \E ds \in DocumentLists :
          documents = [k \in 1..Len(ds) |-> [sentences |-> ds[k], metadata |-> k]]
    /\ max_tokens \in MaxTokensChoices
    /\ overlap_tokens \in OverlapChoices
    /\ doc = 1
    /\ sent = 1
    /\ buffer = <<>>
    /\ buffer_token_count = 0
    /\ chunked_docs = <<>>
    /\ cpc = "chunking"
    /\ buffer_src = <<>>
    /\ chunk_src = <<>>

IdleInput ==
    /\ fn = "build_faiss_index"
    /\ docs = <<>>
    /\ batch_size = BatchSizeGet
    /\ cache_file = EmptyDict
    /\ index_path = Absent

ChunkInit ==
    /\ IdleInput
    /\ IdleEmbedding
    /\ InitChunker
    /\ IdleRace

\* one pass of the sentence loop, lines 79-95
ChunkSentence ==
    /\ cpc = "chunking"
    /\ doc <= Len(documents)
    /\ sent <= Len(documents[doc].sentences)
    /\ LET sentence == documents[doc].sentences[sent]
           sentence_len == TokenLen(sentence)
       IN IF FitsBuffer(buffer_token_count, sentence_len, max_tokens)
          THEN /\ buffer' = Append(buffer, sentence)
               /\ buffer_token_count' = buffer_token_count + sentence_len
               /\ buffer_src' = Append(buffer_src, sent)
               /\ UNCHANGED <<chunked_docs, chunk_src>>
          ELSE /\ chunked_docs' = Append(chunked_docs, Chunk(buffer, documents[doc].metadata))
               /\ buffer' = NextBuffer(buffer, sentence, overlap_tokens)
               /\ buffer_token_count' = NextBufferTokenCount(buffer, sentence, overlap_tokens)
               /\ chunk_src' = Append(chunk_src, buffer_src)
               /\ buffer_src' = IF overlap_tokens > 0 THEN <<0, sent>> ELSE <<sent>>
    /\ sent' = sent + 1
    /\ UNCHANGED <<documents, max_tokens, overlap_tokens, doc, cpc>>
    /\ UNCHANGED <<embedding, race>>

\* the end of a document, lines 97-98, and the start of the next, lines 72-77
FinishDocument ==
    /\ cpc = "chunking"
    /\ doc <= Len(documents)
    /\ sent > Len(documents[doc].sentences)
    /\ chunked_docs' = IF buffer # <<>>
                       THEN Append(chunked_docs, Chunk(buffer, documents[doc].metadata))
                       ELSE chunked_docs
    /\ chunk_src' = IF buffer # <<>> THEN Append(chunk_src, buffer_src) ELSE chunk_src
    /\ buffer_src' = <<>>
    /\ doc' = doc + 1
    /\ sent' = 1
    /\ buffer' = <<>>
    /\ buffer_token_count' = 0
    /\ UNCHANGED <<documents, max_tokens, overlap_tokens, cpc>>
    /\ UNCHANGED <<embedding, race>>

\* return chunked_docs
ReturnChunks ==
    /\ cpc = "chunking"
    /\ doc > Len(documents)
    /\ cpc' = "returned"
    /\ UNCHANGED <<documents, max_tokens, overlap_tokens, doc, sent, buffer,
                   buffer_token_count, chunked_docs, buffer_src, chunk_src>>
    /\ UNCHANGED <<embedding, race>>

ChunkNext ==
    \/ ChunkSentence
    \/ FinishDocument
    \/ ReturnChunks

ChunkSpec == ChunkInit /\ [][ChunkNext]_vars

\* the sentences of the document a chunk was cut from
SentencesOf(c) == Range(documents[c.metadata].sentences)

\* C2 as stated: every chunk has at most max_tokens tokens, unless its text is
\* exactly one sentence of its document that alone has more than max_tokens.
C2_ChunksWithinBudget ==
    \A c \in Range(chunked_docs) :
        \/ TokenLen(c.page_content) <= max_tokens
        \/ \E sentence \in SentencesOf(c) :
              TokenLen(sentence) > max_tokens /\ c.page_content = sentence

\* the sentences of document d together fit the budget
Fits(d) == SumTokens(documents[d].sentences) <= max_tokens

\* the chunks of document d, in output order
ChunksOf(d) == SelectSeq(chunked_docs, LAMBDA c : c.metadata = documents[d].metadata)

\* the one chunk of a document that is not cut
WholeDocument(d) == Chunk(documents[d].sentences, documents[d].metadata)

\* C13: a document whose sentences together fit max_tokens yields exactly one
\* chunk, the sentences joined in order with the metadata of the document and
\* no overlap text; K such documents yield K chunks, in document order.
C13_FittingDocumentOneChunk ==
    cpc = "returned" =>
        /\ \A d \in 1..Len(documents) : Fits(d) => ChunksOf(d) = <<WholeDocument(d)>>
        /\ (\A d \in 1..Len(documents) : Fits(d)) =>
               chunked_docs = [d \in 1..Len(documents) |-> WholeDocument(d)]

\* the documents in which sent_tokenize finds a sentence, in input order
RECURSIVE WithSentences(_)
WithSentences(ds) ==
    IF ds = <<>> THEN <<>>
    ELSE IF Head(ds).sentences = <<>> THEN WithSentences(Tail(ds))
    ELSE <<Head(ds)>> \o WithSentences(Tail(ds))

\* C13, amended: a document with at least one sentence whose sentences
\* together fit max_tokens yields exactly one chunk, the sentences joined in
\* order with the metadata of the document; a document without a sentence
\* yields no chunk; when every document fits, the chunks are the whole
\* documents that have a sentence, in document order.
C13_FittingNonEmptyDocumentOneChunk ==
    cpc = "returned" =>
        /\ \A d \in 1..Len(documents) :
               Fits(d) =>
                   ChunksOf(d) = IF documents[d].sentences = <<>> THEN <<>>
                                 ELSE <<WholeDocument(d)>>
        /\ (\A d \in 1..Len(documents) : Fits(d)) =>
               LET ds == WithSentences(documents)
               IN chunked_docs = [k \in 1..Len(ds) |->
                                      Chunk(ds[k].sentences, ds[k].metadata)]

\* two documents that fit, one of two sentences that fill the budget, and
\* two chunks
C13_Witness ==
    /\ cpc = "returned"
    /\ Len(documents) = 2
    /\ \A d \in 1..2 : Fits(d) /\ documents[d].sentences # <<>>
    /\ \E d \in 1..2 : /\ Len(documents[d].sentences) = 2
                       /\ SumTokens(documents[d].sentences) = max_tokens
    /\ Len(chunked_docs) = 2

\* C16: no emitted chunk has an empty text.
C16_NoEmptyChunk ==
    \A c \in Range(chunked_docs) : c.page_content # <<>>

\* the sentences appended to chunk k, by their number in the document
Appended(k) == SelectSeq(chunk_src[k], LAMBDA n : n > 0)

\* t ends with s
IsSuffix(s, t) ==
    /\ Len(s) <= Len(t)
    /\ SubSeq(t, Len(t) - Len(s) + 1, Len(t)) = s

\* the sentence numbers appended to the chunks of document d, chunk after chunk
RECURSIVE AppendedTo(_, _)
AppendedTo(d, k) ==
    IF k > Len(chunked_docs) THEN <<>>
    ELSE (IF chunked_docs[k].metadata = documents[d].metadata THEN Appended(k) ELSE <<>>)
         \o AppendedTo(d, k + 1)

\* C17: every sentence of every document is appended whole to exactly one
\* chunk of its document, the sentences keep their order across the chunks of
\* the document, and the chunks are grouped by document in input order.
C17_NothingLostOrReordered ==
    /\ Len(chunk_src) = Len(chunked_docs)
    /\ \A k \in 1..Len(chunked_docs) :
           LET c == chunked_docs[k]
               ss == [j \in 1..Len(Appended(k)) |->
                          documents[c.metadata].sentences[Appended(k)[j]]]
           IN /\ IsSuffix(Join(ss), c.page_content)
              /\ 0 \notin Range(chunk_src[k]) => c.page_content = Join(ss)
    /\ \A k, m \in 1..Len(chunked_docs) :
           k < m => chunked_docs[k].metadata <= chunked_docs[m].metadata
    /\ cpc = "returned" =>
           \A d \in 1..Len(documents) :
               AppendedTo(d, 1) = [n \in 1..Len(documents[d].sentences) |-> n]

\* two documents, one cut into chunks of which the second starts with an
\* overlap text
C17_Witness ==
    /\ cpc = "returned"
    /\ Len(documents) = 2
    /\ \E k \in 1..Len(chunk_src) :
           /\ chunked_docs[k].metadata = 1
           /\ 0 \in Range(chunk_src[k])
           /\ Appended(k) = <<2>>
    /\ \E k \in 1..Len(chunk_src) : chunked_docs[k].metadata = 2

----------------------------------------------------------------------------
(* Two runs of build_faiss_index that share one cache file *)

Procs == {1, 2}

\* the texts of the runs, all long enough to pass the filter
RaceTexts == {TextA, TextD, TextB}

\* the deduplicated texts of one run
RaceTextLists ==
    {ts \in UNION {[1..n -> RaceTexts] : n \in 1..MaxChunks} :
        \A j, k \in 1..Len(ts) : j # k => ts[j] # ts[k]}

Finished(p) == runs[p].pc \in {"done", "error"}

RaceInit ==
    /\ IdleInput
    /\ IdleEmbedding
    /\ IdleChunker
    /\ shared_file \in CacheFiles
    /\ runs \in [Procs -> {[pc |-> "start", texts |-> ts, i |-> 0, cache |-> EmptyDict,
                            new_cache_entries |-> EmptyDict, computed |-> {},
                            after |-> FALSE] : ts \in RaceTextLists}]

\* line 118 in run p: the cache is read from the file
RaceLoad(p) ==
    /\ runs[p].pc = "start"
    /\ runs' = [runs EXCEPT ![p].pc = "loop",
                            ![p].cache = LoadCache(shared_file),
                            ![p].after = \A q \in Procs \ {p} : Finished(q)]
    /\ UNCHANGED <<shared_file, embedding, chunker>>

\* lines 129-153 in run p: one pass of the batch loop that the provider answers
RaceBatch(p) ==
    /\ runs[p].pc = "loop"
    /\ runs[p].i < Len(runs[p].texts)
    /\ LET batch == Batch(runs[p].texts, runs[p].i, batch_size)
           queue == BatchToEmbed(batch, runs[p].cache)
           hits == [k \in 1..Len(queue) |-> hash_text(queue[k])]
           new == embed_documents(queue, p, 1)
       IN runs' = [runs EXCEPT ![p].cache = PutAll(@, hits, new),
                               ![p].new_cache_entries = PutAll(@, hits, new),
                               ![p].computed = @ \cup Range(hits),
                               ![p].i = @ + batch_size]
    /\ UNCHANGED <<shared_file, embedding, chunker>>

\* lines 103-113 in run p: the provider fails until the attempts are used up
RaceProviderFails(p) ==
    /\ runs[p].pc = "loop"
    /\ runs[p].i < Len(runs[p].texts)
    /\ BatchToEmbed(Batch(runs[p].texts, runs[p].i, batch_size), runs[p].cache) # <<>>
    /\ runs' = [runs EXCEPT ![p].pc = "error"]
    /\ UNCHANGED <<shared_file, embedding, chunker>>

\* lines 155-156 in run p: the cache of the run replaces the file
RacePersist(p) ==
    /\ runs[p].pc = "loop"
    /\ runs[p].i >= Len(runs[p].texts)
    /\ shared_file' = Dumped(runs[p].cache, runs[p].new_cache_entries, shared_file)
    /\ runs' = [runs EXCEPT ![p].pc = "done"]
    /\ UNCHANGED <<embedding, chunker>>

RaceNext ==
    \/ \E p \in Procs : RaceLoad(p)
    \/ \E p \in Procs : RaceBatch(p)
    \/ \E p \in Procs : RaceProviderFails(p)
    \/ \E p \in Procs : RacePersist(p)

RaceSpec == RaceInit /\ [][RaceNext]_vars

\* one run read the cache file after the other run had ended
OneAfterTheOther == \E p \in Procs : runs[p].after

\* both runs read the cache file before either of them rewrote it
BothLoadedFirst == \A p \in Procs : runs[p].pc # "start" /\ ~runs[p].after

\* the final cache file lacks an entry that one of the runs computed
LostEntry ==
    /\ \A p \in Procs : Finished(p)
    /\ \E p \in Procs : \E h \in runs[p].computed : h \notin DOMAIN shared_file

\* C12: when two runs on the same cache file are executed one after the
\* other, the final cache file has every entry that one of them computed.
C12_SequentialRunsLoseNothing ==
    runs # <<>> /\ OneAfterTheOther => ~LostEntry

\* C12, the concurrent half: two runs that both ended well and both read the
\* file before either rewrote it do not leave a file that lacks an entry one
\* of them computed. The claim says this can fail.
C12_ConcurrentRunsLoseNothing ==
    runs # <<>> /\ BothLoadedFirst /\ (\A p \in Procs : runs[p].pc = "done") => ~LostEntry

\* C12, without the failed runs: executed one after the other, two runs that
\* both end well leave every entry they computed in the file.
C12_SequentialCompletedRunsLoseNothing ==
    runs # <<>> /\ OneAfterTheOther /\ (\A p \in Procs : runs[p].pc = "done") => ~LostEntry

====
